---- MODULE Spec2Model ----
(***************************************************************************)
(* A model of time-to-eat's two build tools:                              *)
(*   bin/lib/gen-rooms.py  (Id, Image, Tile, Room, GenRooms)               *)
(*   bin/lib/add-walls.py  (AddWalls)                                      *)
(*                                                                         *)
(* Text is a sequence of one-character strings, "\n" included, so that the *)
(* emitted bitsydata can be split into lines and fields again.  A frame    *)
(* mask (a Python int of up to 64 bits) is the set of its set bit          *)
(* positions: 0 is {}, s | (1 << i) is s \cup {i}, f & (1 << i) != 0 is    *)
(* i \in f.  Python integers do not overflow.                              *)
(***************************************************************************)
EXTENDS Integers, Sequences, FiniteSets, TLC

VARIABLES
  idVal,      \* Id.val of the Id under test
  idRet,      \* <<what the last Id.encode call read and returned>>, or <<>>
  imgData,    \* Image.data of the image under test: its pixels that are not 0
  imgCell,    \* <<x, y>> of the last Image.slice call, or <<>>
  imgMask,    \* <<the mask Image.slice returned>>, or <<>>
  imgText,    \* <<the text Tile.encode_frame returned for imgMask>>, or <<>>
  dir,        \* the rooms directory: its entries [name, isfile]
  rooms,      \* GenRooms.__call__'s rooms dict, in insertion order: [name, n]
  heap,       \* the Id objects of the run: heap[a] is the val of the Id at a
  rid,        \* the address of the shared room Id (0 before it exists)
  tid,        \* the address of the shared tile Id (0 before it exists)
  rstr,       \* the aggregated room bitsydata
  tstr,       \* the aggregated tile bitsydata
  ri,         \* the index i of the room loop of GenRooms.__call__
  imgs,       \* per encoded room, the data of the images Room.encode opened
  tiles,      \* per encoded room, the tiles list Room.encode built
  out,        \* <<the text echoed>>, or <<>>
  pc,         \* where GenRooms.__call__ is: start, encode, done, failed
  file0,      \* the text of the bitsydata file before the run
  file,       \* the text of the bitsydata file
  lines,      \* AddWalls.lines
  lineI,      \* AddWalls.i
  log,        \* a record of each set_tile_wall call that returned
  wpc,        \* where AddWalls.__call__ is: start, scan, saved, failed
  mode        \* which tool the behaviour runs

idVars  == <<idVal, idRet>>
imgVars == <<imgData, imgCell, imgMask, imgText>>
genVars == <<dir, rooms, heap, rid, tid, rstr, tstr, ri, imgs, tiles, out, pc>>
wallVars == <<file0, file, lines, lineI, log, wpc>>
vars    == <<idVars, imgVars, genVars, wallVars, mode>>

\* the variables of a tool the behaviour does not run
IdIdle ==
  /\ idVal = 0
  /\ idRet = <<>>

ImgIdle ==
  /\ imgData = {}
  /\ imgCell = <<>>
  /\ imgMask = <<>>
  /\ imgText = <<>>

GenIdle ==
  /\ dir = {}
  /\ rooms = <<>>
  /\ heap = <<>>
  /\ rid = 0
  /\ tid = 0
  /\ rstr = <<>>
  /\ tstr = <<>>
  /\ ri = 0
  /\ imgs = <<>>
  /\ tiles = <<>>
  /\ out = <<>>
  /\ pc = "idle"

WallsIdle ==
  /\ file0 = <<>>
  /\ file = <<>>
  /\ lines = <<>>
  /\ lineI = 0
  /\ log = <<>>
  /\ wpc = "idle"

\* ------------------------------------------------------------------ text

ALPHABET ==
  << "0","1","2","3","4","5","6","7","8","9",
     "a","b","c","d","e","f","g","h","i","j","k","l","m",
     "n","o","p","q","r","s","t","u","v","w","x","y","z" >>

NL == "\n"

\* the elements of a sequence
Range(seq) == { seq[k] : k \in 1..Len(seq) }

\* "".join(parts)
RECURSIVE Join(_)
Join(parts) ==
  IF parts = <<>> THEN <<>> ELSE Head(parts) \o Join(Tail(parts))

\* str.startswith
StartsWith(s, p) ==
  /\ Len(s) >= Len(p)
  /\ \A k \in 1..Len(p) : s[k] = p[k]

\* the pieces of s[lo..hi] between the occurrences of c (the range is
\* halved so that the evaluation stays shallow)
RECURSIVE SplitRange(_, _, _, _)
SplitRange(s, c, lo, hi) ==
  IF lo > hi THEN << <<>> >>
  ELSE IF lo = hi THEN (IF s[lo] = c THEN << <<>>, <<>> >> ELSE << <<s[lo]>> >>)
  ELSE LET mid == (lo + hi) \div 2
           a   == SplitRange(s, c, lo, mid)
           b   == SplitRange(s, c, mid + 1, hi)
       IN  SubSeq(a, 1, Len(a) - 1) \o << a[Len(a)] \o b[1] >> \o SubSeq(b, 2, Len(b))

\* str.split(c): the pieces of s between the occurrences of c
SplitOn(s, c) == SplitRange(s, c, 1, Len(s))

\* the lines of a text: str.split("\n")
SplitLines(s) == SplitOn(s, NL)

\* ----------------------------------------------------------------- Image

\* Tile.SIZE and Room.SIZE
TileSIZE == 8
RoomSIZE == 16

\* the palette index Image.slice takes as "on"
OnIndex == 2

\* bounds of the image specification: the pixels an image may set are
\* drawn from PixPool, at most MaxPix of them
MaxPix == 2

PixPool ==
  { [x |-> 0,   y |-> 0,   v |-> 2],
    [x |-> 9,   y |-> 18,  v |-> 2],
    [x |-> 18,  y |-> 9,   v |-> 2],
    [x |-> 127, y |-> 120, v |-> 2],
    [x |-> 10,  y |-> 18,  v |-> 1],
    [x |-> 12,  y |-> 21,  v |-> 3] }

\* self.data[yi][xi]
PixelAt(data, xi, yi) ==
  IF \E p \in data : p.x = xi /\ p.y = yi
  THEN (CHOOSE p \in data : p.x = xi /\ p.y = yi).v
  ELSE 0

\* Image.slice reading any pixel that is not 0 as on
ImageSliceNonZero(data, x, y, s) ==
  LET x0 == x * s
      y0 == y * s
  IN  { i \in 0..(s * s - 1) : PixelAt(data, x0 + (i % s), y0 + (i \div s)) # 0 }

\* Image.slice: rows y0..y1-1 outside, pixels x0..x1-1 inside, i counts
\* the pixels visited; bit i is set iff the pixel is on
ImageSlice(data, x, y, s) ==
  LET x0 == x * s
      x1 == x0 + s
      y0 == y * s
      y1 == y0 + s
      visit == [ i \in 0..((y1 - y0) * (x1 - x0) - 1) |->
                 [xi |-> x0 + (i % (x1 - x0)), yi |-> y0 + (i \div (x1 - x0))] ]
  IN  { i \in DOMAIN visit : PixelAt(data, visit[i].xi, visit[i].yi) = OnIndex }

\* what the loop of Tile.encode_frame adds for bit i, i1 being the end
FramePiece(f, i, i1) ==
  LET bit == IF i \in f THEN <<"1">> ELSE <<"0">>
      ii  == i + 1
      eol == IF (i + 1) % TileSIZE = 0 /\ ii # i1 THEN <<NL>> ELSE <<>>
  IN  bit \o eol

\* the loop of Tile.encode_frame over the bits lo..hi, in order (the range
\* is halved so that the evaluation stays shallow)
RECURSIVE EncodeFrameLoop(_, _, _, _)
EncodeFrameLoop(f, lo, hi, i1) ==
  IF lo > hi THEN <<>>
  ELSE IF lo = hi THEN FramePiece(f, lo, i1)
  ELSE LET mid == (lo + hi) \div 2
       IN  EncodeFrameLoop(f, lo, mid, i1) \o EncodeFrameLoop(f, mid + 1, hi, i1)

\* Tile.encode_frame
TileEncodeFrame(f) ==
  LET i0 == 0
      i1 == TileSIZE * TileSIZE
  IN  EncodeFrameLoop(f, i0, i1 - 1, i1)

InitImg ==
  /\ mode = "img"
  /\ imgData \in { d \in SUBSET PixPool : Cardinality(d) <= MaxPix }
  /\ imgCell = <<>>
  /\ imgMask = <<>>
  /\ imgText = <<>>
  /\ IdIdle
  /\ GenIdle
  /\ WallsIdle

\* the cells of a room in the order Room.encode visits them:
\* for y in range(Room.SIZE): for x in range(Room.SIZE)
CellAt(k) == [x |-> k % RoomSIZE, y |-> k \div RoomSIZE]
NumCells == RoomSIZE * RoomSIZE

\* img.slice(x, y, s = Tile.SIZE) for the next cell of the room
Slice ==
  /\ mode = "img"
  /\ LET k == IF imgCell = <<>> THEN 0 ELSE imgCell[2] * RoomSIZE + imgCell[1] + 1
         c == CellAt(k)
     IN  /\ k < NumCells
         /\ imgCell' = <<c.x, c.y>>
         /\ imgMask' = <<ImageSlice(imgData, c.x, c.y, TileSIZE)>>
  /\ imgText' = <<>>
  /\ UNCHANGED <<imgData, idVars, genVars, wallVars, mode>>

\* encode_frame of the mask sliced last
EncodeFrame ==
  /\ mode = "img"
  /\ imgMask # <<>>
  /\ imgText' = <<TileEncodeFrame(imgMask[1])>>
  /\ UNCHANGED <<imgData, imgCell, imgMask, idVars, genVars, wallVars, mode>>

NextImg == Slice \/ EncodeFrame

SpecImg == InitImg /\ [][NextImg]_vars

\* -------------------------------------------------------------------- Id

\* bounds of the Id specification
MaxVal == 1400

\* the loop of Id.encode with the digit appended instead of prepended
RECURSIVE EncodeLoopAppend(_, _)
EncodeLoopAppend(i, str) ==
  IF i # 0
  THEN EncodeLoopAppend(i \div Len(ALPHABET), str \o <<ALPHABET[(i % Len(ALPHABET)) + 1]>>)
  ELSE str

\* while i != 0: i,j = divmod(i, len(ALPHABET)); str = ALPHABET[j] + str
RECURSIVE EncodeLoop(_, _)
EncodeLoop(i, str) ==
  IF i # 0
  THEN EncodeLoop(i \div Len(ALPHABET), <<ALPHABET[(i % Len(ALPHABET)) + 1]>> \o str)
  ELSE str

\* Id.encode: return str or "0"
IdEncode(val) ==
  LET str == EncodeLoop(val, <<>>)
  IN  IF str = <<>> THEN <<"0">> ELSE str

\* Id.advance
IdAdvance(val) == val + 1

\* Id.copy: a new Id holding the current value
IdCopy(val) == val

\* Id(): val defaults to 0
IdNew == 0

InitId ==
  /\ mode = "id"
  /\ idVal \in {IdNew, 1}
  /\ idRet = <<>>
  /\ ImgIdle
  /\ GenIdle
  /\ WallsIdle

Advance ==
  /\ mode = "id"
  /\ idVal < MaxVal
  /\ idVal' = IdAdvance(idVal)
  /\ idRet' = <<>>
  /\ UNCHANGED <<imgVars, genVars, wallVars, mode>>

Encode ==
  /\ mode = "id"
  /\ idRet' = <<[val |-> idVal, str |-> IdEncode(idVal)]>>
  /\ UNCHANGED <<idVal, imgVars, genVars, wallVars, mode>>

NextId == Advance \/ Encode

SpecId == InitId /\ [][NextId]_vars

\* ----------------------------------------------------------------- files

\* the order of the characters of a file name by code point
CharOrder ==
  << ".", "0","1","2","3","4","5","6","7","8","9", "@" >> \o
  SubSeq(ALPHABET, 11, 36)

Rank(c) == CHOOSE k \in 1..Len(CharOrder) : CharOrder[k] = c

\* a < b for two str
RECURSIVE StrLess(_, _)
StrLess(a, b) ==
  IF b = <<>> THEN FALSE
  ELSE IF a = <<>> THEN TRUE
  ELSE IF Head(a) # Head(b) THEN Rank(Head(a)) < Rank(Head(b))
  ELSE StrLess(Tail(a), Tail(b))

\* fs = os.listdir(d); fs.sort()
RECURSIVE SortedNames(_)
SortedNames(names) ==
  IF names = {} THEN <<>>
  ELSE LET least == CHOOSE a \in names : \A b \in names \ {a} : StrLess(a, b)
       IN  <<least>> \o SortedNames(names \ {least})

\* the last index of c in s, 0 when there is none: str.rfind
LastIndexOf(s, c) ==
  IF \E k \in 1..Len(s) : s[k] = c
  THEN CHOOSE k \in 1..Len(s) : s[k] = c /\ \A j \in (k + 1)..Len(s) : s[j] # c
  ELSE 0

\* os.path.splitext of a name without separators: split at the last dot
\* unless only dots come before it
SplitExt(f) ==
  LET dot == LastIndexOf(f, ".")
  IN  IF dot > 0 /\ \E k \in 1..(dot - 1) : f[k] # "."
      THEN <<SubSeq(f, 1, dot - 1), SubSeq(f, dot, Len(f))>>
      ELSE <<f, <<>>>>

\* the decimal digits of n >= 0: "{0}".format(n)
RECURSIVE Dec(_)
Dec(n) ==
  IF n < 10 THEN <<ALPHABET[n + 1]>>
  ELSE Dec(n \div 10) \o <<ALPHABET[(n % 10) + 1]>>

PngExt == <<".", "p", "n", "g">>

\* "{0}.png".format(nme)
PlainPath(nme) == nme \o PngExt

\* "{0}@{1}.png".format(nme, i)
FramePath(nme, i) == nme \o <<"@">> \o Dec(i) \o PngExt

\* osp.exists and osp.isfile of a path of the rooms directory
Exists(d, path) == \E e \in d : e.name = path
IsFile(d, path) == \E e \in d : e.name = path /\ e.isfile

\* bounds of the driver specification: a directory holds 1..MaxFiles of
\* the entries of FilePool, an image at most MaxOn of the pixels of RoomPix
MaxFiles == 2
MaxOn == 1

FilePool ==
  { [name |-> <<"a">> \o PngExt,             isfile |-> TRUE],
    [name |-> <<"a", "@", "0">> \o PngExt,   isfile |-> TRUE],
    [name |-> <<"a", "@", "1">> \o PngExt,   isfile |-> TRUE],
    [name |-> <<"b", "@", "0">> \o PngExt,   isfile |-> TRUE],
    [name |-> <<"b", ".", "t", "x", "t">>,   isfile |-> TRUE],
    [name |-> <<"c", "@", "0">> \o PngExt,   isfile |-> FALSE] }

RoomPix ==
  { [x |-> 0,   y |-> 0,   v |-> 2],
    [x |-> 9,   y |-> 18,  v |-> 2],
    [x |-> 127, y |-> 127, v |-> 2] }

RoomImages == { d \in SUBSET RoomPix : Cardinality(d) <= MaxOn }

\* ------------------------------------------------------------------ Tile

\* Tile.empty given the address of its new Id
TileEmpty(id) ==
  [id |-> id, name |-> <<"e", "m", "p", "t", "y">>, n |-> 1, frames |-> <<{}>>]

\* Tile.__init__
Tile(id, name, frames) ==
  [id |-> id, name |-> name, n |-> Len(frames), frames |-> frames]

\* Tile.is_empty
TileIsEmpty(h, tile) == h[tile.id] = 0

\* Tile.encode
TileEncode(h, tile) ==
  LET nf   == tile.n
      fs   == tile.frames
      f0   == TileEncodeFrame(fs[1])
      fstr == IF nf = 2 /\ fs[1] # fs[2]
              THEN f0 \o <<NL, ">", NL>> \o TileEncodeFrame(fs[2])
              ELSE f0
  IN  <<"T", "I", "L", " ">> \o IdEncode(h[tile.id]) \o <<NL>> \o
      fstr \o <<NL>> \o
      <<"N", "A", "M", "E", " ">> \o tile.name \o <<NL>> \o
      <<"W", "A", "L", " ", "f", "a", "l", "s", "e", NL>>

\* ------------------------------------------------------------------ Room

\* tid.copy() that hands out the shared Id itself
CopyIdAlias(h, a) == [heap |-> h, at |-> a]

\* tid.copy(): a new Id object holding the value of the Id at a
CopyId(h, a) == [heap |-> Append(h, IdCopy(h[a])), at |-> Len(h) + 1]

\* Id(): a new Id object
NewId(h, val) == [heap |-> Append(h, val), at |-> Len(h) + 1]

\* tid.advance() only after a cell that is not empty
AdvanceIfNotEmpty(h, a, empty) ==
  IF empty THEN h ELSE [h EXCEPT ![a] = IdAdvance(@)]

\* tid.advance() at the end of the cell loop's body, whatever the cell
AdvanceAfterCell(h, a, empty) == [h EXCEPT ![a] = IdAdvance(@)]

\* the paths Room.encode opens for a room of n frames
FramePathOf(d, nme, i) ==
  IF i = 0 /\ Exists(d, PlainPath(nme)) THEN PlainPath(nme) ELSE FramePath(nme, i)

\* "{0} ({1},{2})".format(self.name, x, y)
TileName(nme, x, y) ==
  nme \o <<" ", "(">> \o Dec(x) \o <<",">> \o Dec(y) \o <<")">>

\* the body of the cell loop of Room.encode for cell k; acc = [heap, tiles, ok]
CellStep(acc, k, is, t, nme) ==
  IF ~acc.ok THEN acc
  ELSE
    LET c      == CellAt(k)
        slices == [ i \in 1..Len(is) |-> ImageSlice(is[i], c.x, c.y, TileSIZE) ]
        empty  == \A i \in 1..Len(slices) : ~(slices[i] # {})
        id     == IF empty THEN NewId(acc.heap, IdNew) ELSE CopyId(acc.heap, t)
        tile   == IF empty THEN TileEmpty(id.at)
                  ELSE Tile(id.at, TileName(nme, c.x, c.y), slices)
        \* Tile.__init__ asserts 1 or 2 frames
        ok     == tile.n = 1 \/ tile.n = 2
    IN  [heap  |-> AdvanceAfterCell(id.heap, t, empty),
         tiles |-> Append(acc.tiles, tile),
         ok    |-> ok]

\* the cell loop of Room.encode over the cells lo..hi, in order (the range
\* is halved so that the evaluation stays shallow)
RECURSIVE CellLoop(_, _, _, _, _, _)
CellLoop(acc, lo, hi, is, t, nme) ==
  IF lo > hi THEN acc
  ELSE IF lo = hi THEN CellStep(acc, lo, is, t, nme)
  ELSE LET mid   == (lo + hi) \div 2
           first == CellLoop(acc, lo, mid, is, t, nme)
       IN  IF ~first.ok THEN first
           ELSE CellLoop(first, mid + 1, hi, is, t, nme)

\* the grid loop's addition for tile i with "," after every tile but the last
GridPieceCommaOnly(h, ts, i) ==
  IdEncode(h[ts[i + 1].id]) \o (IF i + 1 = Len(ts) THEN <<>> ELSE <<",">>)

\* what the grid loop of Room.encode adds for tile i (0-based)
GridPiece(h, ts, i) ==
  LET ii  == i + 1
      sep == IF ii = Len(ts) THEN <<>>
             ELSE IF ii % RoomSIZE = 0 THEN <<NL>>
             ELSE <<",">>
  IN  IdEncode(h[ts[i + 1].id]) \o sep

\* the grid loop of Room.encode over the tiles lo..hi, in order
RECURSIVE GridLoop(_, _, _, _)
GridLoop(h, ts, lo, hi) ==
  IF lo > hi THEN <<>>
  ELSE IF lo = hi THEN GridPiece(h, ts, lo)
  ELSE LET mid == (lo + hi) \div 2
       IN  GridLoop(h, ts, lo, mid) \o GridLoop(h, ts, mid + 1, hi)

\* the tile text loop's addition for tile i without the is_empty test
TileTextPieceAll(h, ts, i) == TileEncode(h, ts[i + 1]) \o <<NL>>

\* what the tile text loop of Room.encode adds for tile i (0-based)
TileTextPiece(h, ts, i) ==
  IF ~TileIsEmpty(h, ts[i + 1])
  THEN TileEncode(h, ts[i + 1]) \o <<NL>>
  ELSE <<>>

\* the tile text loop of Room.encode over the tiles lo..hi, in order
RECURSIVE TileTextLoop(_, _, _, _)
TileTextLoop(h, ts, lo, hi) ==
  IF lo > hi THEN <<>>
  ELSE IF lo = hi THEN TileTextPiece(h, ts, lo)
  ELSE LET mid == (lo + hi) \div 2
       IN  TileTextLoop(h, ts, lo, mid) \o TileTextLoop(h, ts, mid + 1, hi)

\* Room.encode(rid, tid) for the room nme of n frames whose images hold is:
\* [ok, heap, tiles, rstr, tstr]
RoomEncode(h, r, t, nme, is) ==
  LET cells == CellLoop([heap |-> h, tiles |-> <<>>, ok |-> TRUE], 0, NumCells - 1, is, t, nme)
      grid  == GridLoop(cells.heap, cells.tiles, 0, Len(cells.tiles) - 1)
      text  == <<"R", "O", "O", "M", " ">> \o IdEncode(cells.heap[r]) \o <<NL>> \o
               grid \o <<NL>> \o
               <<"N", "A", "M", "E", " ">> \o nme \o <<NL>> \o
               <<"P", "A", "L", " ", "0", NL>>
  IN  IF ~cells.ok
      THEN [ok |-> FALSE, heap |-> h, tiles |-> <<>>, rstr |-> <<>>, tstr |-> <<>>]
      ELSE [ok    |-> TRUE,
            heap  |-> [cells.heap EXCEPT ![r] = IdAdvance(@)],
            tiles |-> cells.tiles,
            rstr  |-> text,
            tstr  |-> TileTextLoop(cells.heap, cells.tiles, 0, Len(cells.tiles) - 1)]

\* -------------------------------------------------------------- GenRooms

\* the room of the given name in the rooms dict, 0 when there is none
RoomIndex(rs, nme) ==
  IF \E k \in 1..Len(rs) : rs[k].name = nme
  THEN CHOOSE k \in 1..Len(rs) : rs[k].name = nme
  ELSE 0

\* the file loop of GenRooms.__call__ from file k on; acc = [ok, rooms]
RECURSIVE FileLoop(_, _, _, _)
FileLoop(acc, d, fs, k) ==
  IF k > Len(fs) \/ ~acc.ok THEN acc
  ELSE
    LET f     == fs[k]
        split == SplitExt(f)
        parts == SplitOn(split[1], "@")
        at    == RoomIndex(acc.rooms, parts[1])
    IN  IF IsFile(d, f) /\ split[2] = PngExt
        THEN IF Len(parts) # 2
             \* name, _ = name.split("@") raises ValueError
             THEN [ok |-> FALSE, rooms |-> acc.rooms]
             ELSE FileLoop(
                    [ok    |-> TRUE,
                     rooms |-> IF at = 0
                               THEN Append(acc.rooms, [name |-> parts[1], n |-> 1])
                               ELSE [acc.rooms EXCEPT ![at].n = @ + 1]],
                    d, fs, k + 1)
        ELSE FileLoop(acc, d, fs, k + 1)

ListDir(d) ==
  FileLoop([ok |-> TRUE, rooms |-> <<>>], d, SortedNames({ e.name : e \in d }), 1)

InitGen ==
  /\ mode = "gen"
  /\ dir \in { d \in SUBSET FilePool : Cardinality(d) \in 1..MaxFiles }
  /\ rooms = <<>>
  /\ heap = <<>>
  /\ rid = 0
  /\ tid = 0
  /\ rstr = <<>>
  /\ tstr = <<>>
  /\ ri = 0
  /\ imgs = <<>>
  /\ tiles = <<>>
  /\ out = <<>>
  /\ pc = "start"
  /\ IdIdle
  /\ ImgIdle
  /\ WallsIdle

\* GenRooms.__call__ up to the room loop: the rooms of the directory, the
\* two shared ids, and the empty tile's record at the head of the tile text
ListRooms ==
  /\ mode = "gen"
  /\ pc = "start"
  /\ ListDir(dir).ok
  /\ LET r == NewId(<<>>, IdNew)
         t == NewId(r.heap, 1)
         e == NewId(t.heap, IdNew)
     IN  /\ rid' = r.at
         /\ tid' = t.at
         /\ heap' = e.heap
         /\ tstr' = TileEncode(e.heap, TileEmpty(e.at)) \o <<NL>>
  /\ rooms' = ListDir(dir).rooms
  /\ rstr' = <<>>
  /\ ri' = 0
  /\ pc' = "encode"
  /\ UNCHANGED <<dir, imgs, tiles, out, idVars, imgVars, wallVars, mode>>

\* the file loop raises: a png file's name does not split in two at "@"
ListRoomsError ==
  /\ mode = "gen"
  /\ pc = "start"
  /\ ~ListDir(dir).ok
  /\ pc' = "failed"
  /\ UNCHANGED <<dir, rooms, heap, rid, tid, rstr, tstr, ri, imgs, tiles, out,
                 idVars, imgVars, wallVars, mode>>

\* whether Room.encode can open the images of the room: each path is a file
CanOpen(d, room) ==
  \A i \in 0..(room.n - 1) : IsFile(d, FramePathOf(d, room.name, i))

\* one pass of the room loop: r.encode(rid, tid) and the aggregation, or
\* the end of the run when a Tile's assertion fails
EncodeRoom ==
  /\ mode = "gen"
  /\ pc = "encode"
  /\ ri < Len(rooms)
  /\ CanOpen(dir, rooms[ri + 1])
  /\ \E is \in [1..rooms[ri + 1].n -> RoomImages] :
       \E res \in {RoomEncode(heap, rid, tid, rooms[ri + 1].name, is)} :
         LET ii == ri + 1
         IN  IF res.ok
             THEN /\ heap' = res.heap
                  /\ rstr' = rstr \o res.rstr \o (IF ii # Len(rooms) THEN <<NL>> ELSE <<>>)
                  /\ tstr' = tstr \o res.tstr
                  /\ imgs' = Append(imgs, is)
                  /\ tiles' = Append(tiles, res.tiles)
                  /\ ri' = ri + 1
                  /\ pc' = pc
             ELSE /\ pc' = "failed"
                  /\ UNCHANGED <<heap, rstr, tstr, imgs, tiles, ri>>
  /\ UNCHANGED <<dir, rooms, rid, tid, out, idVars, imgVars, wallVars, mode>>

\* r.encode raises: Image.open finds no file at the path of a frame
MissingImage ==
  /\ mode = "gen"
  /\ pc = "encode"
  /\ ri < Len(rooms)
  /\ ~CanOpen(dir, rooms[ri + 1])
  /\ pc' = "failed"
  /\ UNCHANGED <<dir, rooms, heap, rid, tid, rstr, tstr, ri, imgs, tiles, out,
                 idVars, imgVars, wallVars, mode>>

\* the end of GenRooms.__call__: click.echo of the result
Emit ==
  /\ mode = "gen"
  /\ pc = "encode"
  /\ ri = Len(rooms)
  /\ \E only_tiles \in BOOLEAN :
       out' = <<(IF only_tiles THEN tstr ELSE rstr \o <<NL>> \o tstr) \o <<NL>>>>
  /\ pc' = "done"
  /\ UNCHANGED <<dir, rooms, heap, rid, tid, rstr, tstr, ri, imgs, tiles,
                 idVars, imgVars, wallVars, mode>>

NextGen == ListRooms \/ ListRoomsError \/ EncodeRoom \/ MissingImage \/ Emit

Spec == InitGen /\ [][NextGen]_vars

\* -------------------------------------------------------------- AddWalls

\* the number of bitmap lines set_tile_wall reads, and its threshold
BitmapRows == 8
WallThreshold == 20

TilPrefix == <<"T", "I", "L">>
WalPrefix == <<"W", "A", "L">>
BlankLine == <<NL>>

\* f.readlines(): the lines of a text, each with its "\n", the last one
\* without when the text does not end in "\n"
ReadLines(text) ==
  LET pieces == SplitOn(text, NL)
      n      == Len(pieces)
      whole  == [ k \in 1..(n - 1) |-> pieces[k] \o <<NL>> ]
  IN  IF pieces[n] = <<>> THEN whole ELSE Append(whole, pieces[n])

\* the '1' characters of a line
CountOnes(line) == Cardinality({ k \in 1..Len(line) : line[k] = "1" })

\* "true" if count >= 20
IsWallAtLeast(count) == count >= WallThreshold

\* "true" if count > 20
IsWall(count) == count > WallThreshold

\* "WAL {0}\n".format("true" if count > 20 else "false")
WallLine(count) ==
  <<"W", "A", "L", " ">> \o
  (IF IsWall(count) THEN <<"t", "r", "u", "e">> ELSE <<"f", "a", "l", "s", "e">>) \o
  <<NL>>

\* the row loop of set_tile_wall with left rows to read from line j on;
\* self.lines[j] raises IndexError past the end
RECURSIVE CountLoop(_, _, _, _)
CountLoop(ls, j, left, count) ==
  IF left = 0 THEN [ok |-> TRUE, j |-> j, count |-> count]
  ELSE IF j >= Len(ls) THEN [ok |-> FALSE, j |-> j, count |-> count]
  ELSE CountLoop(ls, j + 1, left - 1, count + CountOnes(ls[j + 1]))

\* list.insert(j, x)
InsertAt(ls, j, x) == SubSeq(ls, 1, j) \o <<x>> \o SubSeq(ls, j + 1, Len(ls))

\* the search loop of set_tile_wall that overwrites the blank line it meets
RECURSIVE FindLoopOverBlank(_, _, _)
FindLoopOverBlank(ls, j, wall) ==
  IF j >= Len(ls) THEN [ok |-> FALSE, lines |-> ls, j |-> j, inserted |-> FALSE]
  ELSE IF StartsWith(ls[j + 1], WalPrefix) \/ ls[j + 1] = BlankLine
  THEN [ok |-> TRUE, lines |-> [ls EXCEPT ![j + 1] = wall], j |-> j, inserted |-> FALSE]
  ELSE FindLoopOverBlank(ls, j + 1, wall)

\* the search loop of set_tile_wall that adds the line at the end of the
\* file when it meets no WAL line and no blank line
RECURSIVE FindLoopOrAppend(_, _, _)
FindLoopOrAppend(ls, j, wall) ==
  IF j >= Len(ls) THEN [ok |-> TRUE, lines |-> Append(ls, wall), j |-> j, inserted |-> TRUE]
  ELSE IF StartsWith(ls[j + 1], WalPrefix)
  THEN [ok |-> TRUE, lines |-> [ls EXCEPT ![j + 1] = wall], j |-> j, inserted |-> FALSE]
  ELSE IF ls[j + 1] = BlankLine
  THEN [ok |-> TRUE, lines |-> InsertAt(ls, j, wall), j |-> j, inserted |-> TRUE]
  ELSE FindLoopOrAppend(ls, j + 1, wall)

\* the search loop of set_tile_wall from line j on: replace the WAL line or
\* insert before the blank line, whichever comes first; self.lines[j]
\* raises IndexError past the end
RECURSIVE FindLoop(_, _, _)
FindLoop(ls, j, wall) ==
  IF j >= Len(ls) THEN [ok |-> FALSE, lines |-> ls, j |-> j, inserted |-> FALSE]
  ELSE IF StartsWith(ls[j + 1], WalPrefix)
  THEN [ok |-> TRUE, lines |-> [ls EXCEPT ![j + 1] = wall], j |-> j, inserted |-> FALSE]
  ELSE IF ls[j + 1] = BlankLine
  THEN [ok |-> TRUE, lines |-> InsertAt(ls, j, wall), j |-> j, inserted |-> TRUE]
  ELSE FindLoop(ls, j + 1, wall)

\* AddWalls.set_tile_wall with self.i = at: [ok, lines, j] and, for the
\* record, the line written, the count and whether a line was inserted
SetTileWall(ls, at) ==
  LET rows  == CountLoop(ls, at + 1, BitmapRows, 0)
      found == FindLoop(ls, rows.j, WallLine(rows.count))
  IN  IF ~rows.ok
      THEN [ok |-> FALSE, lines |-> ls, j |-> rows.j, wal |-> 0,
            count |-> rows.count, inserted |-> FALSE]
      ELSE [ok |-> found.ok, lines |-> found.lines, j |-> found.j + 1, wal |-> found.j,
            count |-> rows.count, inserted |-> found.inserted]

\* the lines the input files are made of
TilLine   == <<"T", "I", "L", " ", "1", NL>>
Row8      == <<"1", "1", "1", "1", "1", "1", "1", "1", NL>>
Row5      == <<"1", "1", "1", "1", "1", "0", "0", "0", NL>>
Row4      == <<"1", "1", "1", "1", "0", "0", "0", "0", NL>>
Row0      == <<"0", "0", "0", "0", "0", "0", "0", "0", NL>>
NextFrame == <<">", NL>>
NameRow   == <<"N", "A", "M", "E", " ", "t", "1", NL>>
WalFalse  == <<"W", "A", "L", " ", "f", "a", "l", "s", "e", NL>>
WalTrue   == <<"W", "A", "L", " ", "t", "r", "u", "e", NL>>
PalLine   == <<"P", "A", "L", " ", "0", NL>>

\* bitmaps of 20 and of 21 set bits, one of 20 with a full second frame,
\* and one cut short after 3 rows
Bitmaps ==
  { <<Row8, Row8, Row4, Row0, Row0, Row0, Row0, Row0>>,
    <<Row8, Row8, Row5, Row0, Row0, Row0, Row0, Row0>>,
    <<Row8, Row8, Row4, Row0, Row0, Row0, Row0, Row0, NextFrame,
      Row8, Row8, Row8, Row8, Row8, Row8, Row8, Row8>>,
    <<Row8, Row8, Row8>> }

\* what follows the bitmap of a block
Tails ==
  { <<NameRow, WalFalse, BlankLine>>,
    <<NameRow, BlankLine>>,
    <<NameRow, WalTrue>>,
    <<NameRow>> }

Blocks == { <<TilLine>> \o b \o t : b \in Bitmaps, t \in Tails }

\* bound of the annotator specification: a file is a PAL line, a blank
\* line and 1..MaxBlocks blocks
MaxBlocks == 2

Files ==
  { Join(<<PalLine, BlankLine>> \o Join(bs)) :
      bs \in UNION { [1..n -> Blocks] : n \in 1..MaxBlocks } }

InitWalls ==
  /\ mode = "walls"
  /\ file0 \in Files
  /\ file = file0
  /\ lines = <<>>
  /\ lineI = 0
  /\ log = <<>>
  /\ wpc = "start"
  /\ IdIdle
  /\ ImgIdle
  /\ GenIdle

\* AddWalls.__call__: load file
Load ==
  /\ mode = "walls"
  /\ wpc = "start"
  /\ lines' = ReadLines(file)
  /\ wpc' = "scan"
  /\ UNCHANGED <<file0, file, lineI, log, idVars, imgVars, genVars, mode>>

AtTil == StartsWith(lines[lineI + 1], TilPrefix)

\* one pass of the line loop at a line that starts with "TIL"
ScanTile ==
  /\ mode = "walls"
  /\ wpc = "scan"
  /\ lineI < Len(lines)
  /\ AtTil
  /\ \E res \in {SetTileWall(lines, lineI)} :
       /\ res.ok
       /\ lines' = res.lines
       /\ lineI' = res.j
       /\ log' = Append(log, [til |-> lineI, wal |-> res.wal, count |-> res.count,
                              inserted |-> res.inserted])
  /\ UNCHANGED <<file0, file, wpc, idVars, imgVars, genVars, mode>>

\* set_tile_wall raises IndexError: the run ends, nothing is written
TileError ==
  /\ mode = "walls"
  /\ wpc = "scan"
  /\ lineI < Len(lines)
  /\ AtTil
  /\ ~SetTileWall(lines, lineI).ok
  /\ wpc' = "failed"
  /\ UNCHANGED <<file0, file, lines, lineI, log, idVars, imgVars, genVars, mode>>

\* one pass of the line loop at any other line
ScanOther ==
  /\ mode = "walls"
  /\ wpc = "scan"
  /\ lineI < Len(lines)
  /\ ~AtTil
  /\ lineI' = lineI + 1
  /\ UNCHANGED <<file0, file, lines, log, wpc, idVars, imgVars, genVars, mode>>

\* AddWalls.__call__: save file, once the line loop has ended
Save ==
  /\ mode = "walls"
  /\ wpc = "scan"
  /\ ~(lineI < Len(lines))
  /\ file' = Join(lines)
  /\ wpc' = "saved"
  /\ UNCHANGED <<file0, lines, lineI, log, idVars, imgVars, genVars, mode>>

NextWalls == Load \/ ScanTile \/ TileError \/ ScanOther \/ Save

SpecWalls == InitWalls /\ [][NextWalls]_vars

\* --------------------------------------------------------------- claims

\* the digit value of a character, 0..35 (36 when it is no digit)
DigitOf(c) ==
  IF \E d \in 1..Len(ALPHABET) : ALPHABET[d] = c
  THEN (CHOOSE d \in 1..Len(ALPHABET) : ALPHABET[d] = c) - 1
  ELSE Len(ALPHABET)

\* a base-36 numeral read most-significant digit first
RECURSIVE Decode36(_, _)
Decode36(str, acc) ==
  IF str = <<>> THEN acc
  ELSE Decode36(Tail(str), acc * Len(ALPHABET) + DigitOf(Head(str)))

\* C9: Id.encode returns, for every counter value n >= 0, a non-empty
\* numeral over 0-9a-z, most-significant digit first, that is "0" for n = 0,
\* has no leading zero for n > 0 and decodes to n; the counter is unchanged.
C9_EncodeIsBase36 ==
  \A r \in Range(idRet) :
    /\ idVal = r.val
    /\ Len(r.str) >= 1
    /\ \A k \in 1..Len(r.str) : DigitOf(r.str[k]) < Len(ALPHABET)
    /\ (r.val = 0) => (r.str = <<"0">>)
    /\ (r.val > 0) => (r.str[1] # "0")
    /\ Decode36(r.str, 0) = r.val

\* a three-digit value whose digits differ has been encoded
C9_Witness ==
  idRet = <<[val |-> 1335, str |-> <<"1","1","3">>]>>

\* C10: Image.slice sets bit row*8+col of the mask of cell (x, y) iff the
\* pixel at (x*8+col, y*8+row) is on, and Tile.encode_frame of that mask
\* is 8 lines of 8 characters with '1' at line row, position col iff that
\* bit is set and '0' elsewhere.
C10_BitmapRoundTrip ==
  /\ \A m \in Range(imgMask) :
       /\ m \subseteq 0..63
       /\ \A row \in 0..7, col \in 0..7 :
            (row * 8 + col \in m) <=>
              (PixelAt(imgData, imgCell[1] * 8 + col, imgCell[2] * 8 + row) = OnIndex)
  /\ \A t \in Range(imgText) :
       LET rows == SplitLines(t)
       IN  /\ Len(rows) = 8
           /\ \A row \in 0..7 :
                /\ Len(rows[row + 1]) = 8
                /\ \A col \in 0..7 :
                     rows[row + 1][col + 1] =
                       IF PixelAt(imgData, imgCell[1] * 8 + col, imgCell[2] * 8 + row) = OnIndex
                       THEN "1" ELSE "0"

\* cell (1,2) of an image whose pixel (9,18) is on and whose pixel (10,18)
\* holds another index: the bitmap has its only '1' at line 2, position 1
C10_Witness ==
  /\ [x |-> 9, y |-> 18, v |-> 2] \in imgData
  /\ [x |-> 10, y |-> 18, v |-> 1] \in imgData
  /\ imgCell = <<1, 2>>
  /\ imgMask = <<{17}>>
  /\ imgText # <<>>
  /\ SplitLines(imgText[1])[3] = <<"0","1","0","0","0","0","0","0">>

\* ------------------------------------------------- claims on gen-rooms

\* the cells (row-major index) of a room in which some frame has an on pixel
OnCells(is) ==
  { (p.y \div TileSIZE) * RoomSIZE + (p.x \div TileSIZE) :
      p \in { q \in UNION Range(is) : q.v = OnIndex } }

\* the value of the id of the tile of cell k (row-major) of encoded room r
IdOfCell(r, k) == heap[tiles[r][k + 1].id]

\* C1 as stated: after each room the tile allocator has grown by the number
\* of non-empty cells of the room (it starts at 1).
C1_GrowsByNonEmpty ==
  tid # 0 =>
    heap[tid] = 1 + Cardinality({ c \in (1..Len(imgs)) \X (0..(NumCells - 1)) :
                                    c[2] \in OnCells(imgs[c[1]]) })

\* C1 amended: an empty cell carries the empty tile's id 0, a non-empty
\* cell the allocator's value when the cell is reached, and the allocator is
\* advanced once for every cell, empty or not: it grows by 256 per room.
C1_GrowsByEveryCell ==
  tid # 0 =>
    /\ heap[tid] = 1 + NumCells * Len(tiles)
    /\ \A r \in 1..Len(tiles) : \A k \in 0..(NumCells - 1) :
         IdOfCell(r, k) = IF k \in OnCells(imgs[r])
                          THEN 1 + NumCells * (r - 1) + k
                          ELSE 0

\* a room with an empty first cell and a non-empty cell has been encoded
C1_Witness ==
  /\ Len(tiles) = 1
  /\ OnCells(imgs[1]) = {2 * RoomSIZE + 1}
  /\ IdOfCell(1, 0) = 0
  /\ IdOfCell(1, 2 * RoomSIZE + 1) = 2 * RoomSIZE + 2
  /\ heap[tid] = 1 + NumCells

\* no two non-empty cells of the run share an id, and none has id 0
C3_Unique ==
  \A r1 \in 1..Len(tiles), r2 \in 1..Len(tiles) :
    \A k1 \in OnCells(imgs[r1]), k2 \in OnCells(imgs[r2]) :
      /\ IdOfCell(r1, k1) # 0
      /\ tiles[r1][k1 + 1].name # TileEmpty(0).name
      /\ (<<r1, k1>> # <<r2, k2>>) => (IdOfCell(r1, k1) # IdOfCell(r2, k2))

\* no step changes the id stored in a tile built before it
C3_Stable ==
  \A r \in 1..Len(tiles) : \A k \in 0..(NumCells - 1) :
    heap'[tiles[r][k + 1].id] = heap[tiles[r][k + 1].id]

\* C3: across the run no two non-empty cells, of one room or of two, get
\* the same id, no non-empty tile gets id 0, and the id stored in a tile
\* stays what it was when the allocator advances later.
C3_IdsNeverReused == [][C3_Unique' /\ C3_Stable]_vars

\* two rooms have been encoded, each with the same non-empty cell
C3_Witness ==
  /\ Len(tiles) = 2
  /\ OnCells(imgs[1]) = {2 * RoomSIZE + 1}
  /\ OnCells(imgs[2]) = {2 * RoomSIZE + 1}
  /\ IdOfCell(1, 2 * RoomSIZE + 1) = 2 * RoomSIZE + 2
  /\ IdOfCell(2, 2 * RoomSIZE + 1) = NumCells + 2 * RoomSIZE + 2

RoomWord == <<"R", "O", "O", "M", " ">>
TilWord  == <<"T", "I", "L", " ">>
NameWord == <<"N", "A", "M", "E", " ">>

\* the lines of the room text rl that open a ROOM record
RoomHeads(rl) == { u \in 1..Len(rl) : StartsWith(rl[u], RoomWord) }

\* the line of the room text rl that opens the r-th ROOM record
RoomHead(rl, r) ==
  CHOOSE u \in RoomHeads(rl) : Cardinality({ v \in RoomHeads(rl) : v <= u }) = r

\* the lines of the tile text tl that open a TIL record
TilHeads(tl) == { u \in 1..Len(tl) : StartsWith(tl[u], TilWord) }

\* the ids of the TIL records of the tile text tl
TilIds(tl) == { SubSeq(tl[u], Len(TilWord) + 1, Len(tl[u])) : u \in TilHeads(tl) }

\* C2: the grid of every room encoded is 16 lines of 16 comma-joined ids,
\* 256 in all, directly followed by the NAME line, and every id is "0" or
\* the id of a TIL record of the run's tile text.
C2_GridIsValid ==
  LET rl    == SplitLines(rstr)
      heads == RoomHeads(rl)
      known == TilIds(SplitLines(tstr)) \cup { <<"0">> }
  IN  /\ Cardinality(heads) = Len(tiles)
      /\ \A u \in heads :
           /\ u + RoomSIZE + 1 <= Len(rl)
           /\ StartsWith(rl[u + RoomSIZE + 1], NameWord)
           /\ \A y \in 1..RoomSIZE :
                LET ids == SplitOn(rl[u + y], ",")
                IN  /\ Len(ids) = RoomSIZE
                    /\ \A x \in 1..RoomSIZE : ids[x] \in known

\* the run is done with a room whose last cell holds the two-digit id 74
\* (256) and whose other cells hold 0
C2_Witness ==
  /\ pc = "done"
  /\ Len(tiles) = 1
  /\ <<"7", "4">> \in TilIds(SplitLines(tstr))
  /\ LET rl  == SplitLines(rstr)
         row == SplitOn(rl[RoomHead(rl, 1) + RoomSIZE], ",")
     IN  /\ row[RoomSIZE] = <<"7", "4">>
         /\ row[1] = <<"0">>

\* the file names of the png files of a directory
PngNames(d) ==
  { e.name : e \in { x \in d : x.isfile /\ Len(x.name) > Len(PngExt)
                                 /\ SubSeq(x.name, Len(x.name) - 3, Len(x.name)) = PngExt } }

\* a png file's name without ".png" and without an "@<index>" suffix
BaseName(f) ==
  LET stem == SubSeq(f, 1, Len(f) - Len(PngExt))
      ats  == { k \in 1..Len(stem) : stem[k] = "@" }
  IN  IF ats = {} THEN stem
      ELSE SubSeq(stem, 1, (CHOOSE k \in ats : \A j \in ats : k <= j) - 1)

Room1Dir ==
  { [name |-> <<"a">> \o PngExt, isfile |-> TRUE],
    [name |-> <<"a", "@", "1">> \o PngExt, isfile |-> TRUE] }

\* C4 as stated: once the directory is listed there is exactly one room per
\* base name, with as many frames as the base name has files, whether or
\* not the names carry an "@<index>" suffix; the run on a directory of
\* a.png and a@1.png does not fail.
C4_OneRoomPerBaseName ==
  (pc # "start") =>
    /\ \A f \in PngNames(dir) :
         \E k \in 1..Len(rooms) :
           /\ rooms[k].name = BaseName(f)
           /\ rooms[k].n = Cardinality({ g \in PngNames(dir) : BaseName(g) = BaseName(f) })
           /\ \A j \in 1..Len(rooms) : rooms[j].name = BaseName(f) => j = k
    /\ Len(rooms) = Cardinality({ BaseName(f) : f \in PngNames(dir) })
    /\ (dir = Room1Dir) => (pc # "failed")

\* the empty tile's record, as the lines of the tile text it takes
ZeroRow == <<"0", "0", "0", "0", "0", "0", "0", "0">>
EmptyRecord ==
  << TilWord \o <<"0">>,
     ZeroRow, ZeroRow, ZeroRow, ZeroRow, ZeroRow, ZeroRow, ZeroRow, ZeroRow,
     NameWord \o <<"e", "m", "p", "t", "y">>,
     <<"W", "A", "L", " ", "f", "a", "l", "s", "e">>,
     <<>> >>

\* the NAME line of the tile of cell k of a room
NameLine(nme, k) ==
  NameWord \o nme \o <<" ", "(">> \o Dec(k % RoomSIZE) \o <<",">> \o
  Dec(k \div RoomSIZE) \o <<")">>

\* the non-empty cells of the rooms encoded: <<room, cell>>
NonEmptyCells ==
  { <<r, k>> \in (1..Len(imgs)) \X (0..(NumCells - 1)) : k \in OnCells(imgs[r]) }

\* C5: the tile text opens with the empty tile's record, which is its only
\* TIL 0 record; besides it the tile text holds exactly one record per
\* non-empty cell, named after the cell, and none for a cell whose mask is
\* zero in every frame; a cell's grid entry is "0" exactly when its mask is
\* zero in every frame.
C5_Deduplication ==
  (tid # 0) =>
    LET tl == SplitLines(tstr)
        rl == SplitLines(rstr)
    IN  /\ Len(tl) >= Len(EmptyRecord)
        /\ SubSeq(tl, 1, Len(EmptyRecord)) = EmptyRecord
        /\ Cardinality({ u \in 1..Len(tl) : tl[u] = EmptyRecord[1] }) = 1
        /\ Cardinality(TilHeads(tl)) = 1 + Cardinality(NonEmptyCells)
        /\ { tl[u] : u \in { v \in 1..Len(tl) : StartsWith(tl[v], NameWord) } }
             = { NameLine(rooms[c[1]].name, c[2]) : c \in NonEmptyCells }
                 \cup { EmptyRecord[10] }
        /\ \A r \in 1..Len(tiles) : \A y \in 0..(RoomSIZE - 1) :
             LET ids == SplitOn(rl[RoomHead(rl, r) + y + 1], ",")
             IN  \A x \in 0..(RoomSIZE - 1) :
                   (ids[x + 1] = <<"0">>) <=> (y * RoomSIZE + x \notin OnCells(imgs[r]))

\* two rooms have been encoded, the first with one non-empty cell and the
\* second with none: the tile text holds the empty record and one more
C5_Witness ==
  /\ Len(tiles) = 2
  /\ OnCells(imgs[1]) = {0}
  /\ OnCells(imgs[2]) = {}
  /\ Cardinality(TilHeads(SplitLines(tstr))) = 2
  /\ LET rl == SplitLines(rstr)
     IN  /\ SplitOn(rl[RoomHead(rl, 1) + 1], ",")[1] = <<"1">>
         /\ SplitOn(rl[RoomHead(rl, 2) + 1], ",")[1] = <<"0">>

\* ------------------------------------------------- claims on add-walls

IsWal(l) == StartsWith(l, WalPrefix)
IsTil(l) == StartsWith(l, TilPrefix)

\* the lines (1-based) of ls that start with TIL, and the n-th of them
TilAt(ls) == { t \in 1..Len(ls) : IsTil(ls[t]) }
NthOf(S, n) == CHOOSE u \in S : Cardinality({ v \in S : v <= u }) = n

\* a bitmap line: 8 characters '0' or '1' and the line end
IsBitmapLine(l) ==
  /\ Len(l) = 9
  /\ \A c \in 1..8 : l[c] \in {"0", "1"}
  /\ l[9] = NL

\* the '1' characters of the 8 lines after line t
OnesAfter(ls, t) ==
  Cardinality({ p \in (1..8) \X (1..9) :
                  p[2] <= Len(ls[t + p[1]]) /\ ls[t + p[1]][p[2]] = "1" })

\* a WAL line or a blank line comes after the 8 lines that follow line t
HasTerminator(ls, t) ==
  \E k \in (t + 9)..Len(ls) : IsWal(ls[k]) \/ ls[k] = BlankLine

\* the first line after the 8 lines that follow line t that is a WAL line,
\* a blank line or a TIL line: where the block of line t ends (0: nowhere)
BlockEnd(ls, t) ==
  LET ends == { k \in (t + 9)..Len(ls) : IsWal(ls[k]) \/ ls[k] = BlankLine \/ IsTil(ls[k]) }
  IN  IF ends = {} THEN 0 ELSE CHOOSE k \in ends : \A j \in ends : k <= j

\* every TIL line is followed by 8 bitmap lines and then, before the end
\* of the file, by a WAL line or a blank line
WellFormed(ls) ==
  \A t \in TilAt(ls) :
    /\ t + 8 <= Len(ls)
    /\ \A k \in 1..8 : IsBitmapLine(ls[t + k])
    /\ HasTerminator(ls, t)

\* ... and that WAL line or blank line comes before the next TIL line
WellSeparated(ls) ==
  /\ WellFormed(ls)
  /\ \A t \in TilAt(ls) : ~IsTil(ls[BlockEnd(ls, t)])

\* every TIL block of outp keeps the bitmap it has in inp and has, where
\* the block ends, a WAL line that reads true iff the block's first 8
\* bitmap lines hold more than 20 '1'
BlocksAnnotated(inp, outp) ==
  /\ Cardinality(TilAt(outp)) = Cardinality(TilAt(inp))
  /\ \A n \in 1..Cardinality(TilAt(inp)) :
       LET t == NthOf(TilAt(inp), n)
           u == NthOf(TilAt(outp), n)
           k == BlockEnd(outp, u)
       IN  /\ u + 8 <= Len(outp)
           /\ SubSeq(outp, u + 1, u + 8) = SubSeq(inp, t + 1, t + 8)
           /\ k # 0
           /\ outp[k] = IF OnesAfter(inp, t) > 20 THEN WalTrue ELSE WalFalse

\* C6 as stated: for every input in which each TIL line is followed by 8
\* bitmap lines and then, before the end of the file, by a WAL or blank
\* line, the saved file has in every TIL block its own correct WAL line.
C6_EveryBlockAnnotated ==
  (wpc = "saved" /\ WellFormed(ReadLines(file0))) =>
    BlocksAnnotated(ReadLines(file0), ReadLines(file))

\* C6 amended: the same for every input in which that WAL or blank line
\* also comes before the next TIL line; on such an input the run does not
\* fail.
C6_SeparatedBlocksAnnotated ==
  WellSeparated(ReadLines(file0)) =>
    /\ wpc # "failed"
    /\ (wpc = "saved") => BlocksAnnotated(ReadLines(file0), ReadLines(file))

\* saved: a block of 21 bits whose WAL false line now reads true, then a
\* two-frame block of 20 bits that got a WAL false line inserted
C6_Witness ==
  /\ wpc = "saved"
  /\ WellSeparated(ReadLines(file0))
  /\ Len(log) = 2
  /\ log[1].count = 21 /\ ~log[1].inserted
  /\ log[2].count = 20 /\ log[2].inserted
  /\ NextFrame \in Range(ReadLines(file0))
  /\ ReadLines(file)[log[1].wal + 1] = WalTrue
  /\ ReadLines(file0)[log[1].wal + 1] = WalFalse
  /\ ReadLines(file)[log[2].wal + 1] = WalFalse

\* some TIL line has fewer than 8 lines after it, or no WAL line and no
\* blank line after its bitmap
Malformed(ls) ==
  \E t \in TilAt(ls) : Len(ls) - t < 8 \/ ~HasTerminator(ls, t)

\* C7 as stated: on an input with such a TIL line the run does not save,
\* and the file is as it was until the run saves.
C7_MalformedNeverSaved ==
  /\ Malformed(ReadLines(file0)) => (wpc # "saved")
  /\ (wpc # "saved") => (file = file0)

\* C7 amended: when the line loop stands at a TIL line with fewer than 8
\* lines after it, or with no WAL line and no blank line after its 8 lines,
\* the step fails; the file changes only in the step that saves, which is
\* taken only once the line loop has passed every line.
C7_FailsAtMalformedBlock ==
  [][ /\ (/\ wpc = "scan"
          /\ lineI < Len(lines)
          /\ AtTil
          /\ (Len(lines) - (lineI + 1) < 8 \/ ~HasTerminator(lines, lineI + 1)))
         => (wpc' = "failed")
      /\ (wpc' = "failed") => (file' = file0 /\ wpc = "scan")
      /\ (file' # file) => (wpc = "scan" /\ wpc' = "saved" /\ ~(lineI < Len(lines)))
    ]_vars

\* the run failed at a later block after it had changed a line in memory:
\* the file still holds the input
C7_Witness ==
  /\ wpc = "failed"
  /\ Len(log) = 1
  /\ lines # ReadLines(file0)
  /\ file = file0

\* the lines of ls that do not start with WAL, in order
NonWal(ls) == SelectSeq(ls, LAMBDA l : ~IsWal(l))

\* the calls of the record that inserted a line
Inserted == { n \in 1..Len(log) : log[n].inserted }

\* C8: after loading, the lines in memory differ from the input only in
\* WAL lines: the lines that do not start with WAL are the input's, in
\* order; there is one more line per call that inserted, each a WAL line
\* put before the first blank line after the block's bitmap with no WAL
\* line before it; and the saved file holds exactly these lines.
C8_OnlyWalLinesDiffer ==
  (wpc \in {"scan", "saved", "failed"}) =>
    LET inp == ReadLines(file0)
    IN  /\ NonWal(lines) = NonWal(inp)
        /\ Len(lines) = Len(inp) + Cardinality(Inserted)
        /\ \A n \in 1..Len(log) :
             /\ IsWal(lines[log[n].wal + 1])
             /\ log[n].inserted =>
                  /\ lines[log[n].wal + 2] = BlankLine
                  /\ \A k \in (log[n].til + BitmapRows + 2)..log[n].wal :
                       ~IsWal(lines[k]) /\ lines[k] # BlankLine
             /\ ~log[n].inserted => IsWal(inp[log[n].wal + 1
                                         - Cardinality({ m \in Inserted : m < n })])
        /\ (wpc = "saved") => (ReadLines(file) = lines)

\* saved after one call replaced a WAL line and another inserted one
C8_Witness ==
  /\ wpc = "saved"
  /\ Len(log) = 2
  /\ log[1].inserted
  /\ ~log[2].inserted
  /\ Len(ReadLines(file)) = Len(ReadLines(file0)) + 1
  /\ file # file0

====
